---- MODULE Spec2Model ----
(***************************************************************************)
(* Backend selection of WebDNN (src/descriptor_runner/webdnn.ts) and the   *)
(* WebGPU crash tracker of the ResNet50 demo (src/scripts/resnet50.ts).    *)
(***************************************************************************)
EXTENDS Integers, Sequences, FiniteSets, TLC

\* Longest backendOrder array a caller passes to load().
MaxOrderLen == 3

(***************************************************************************)
(* Names                                                                   *)
(***************************************************************************)

\* type BackendName = 'webgpu' | 'webassembly' | 'fallback'
BackendName == {"webgpu", "webassembly", "fallback"}

\* Own keys of the constructor map.
descriptorRunners == {"webgpu", "webassembly", "fallback"}

\* A property name every object literal inherits from Object.prototype:
\* `name in descriptorRunners` is true for it although it is no backend.
ObjectPrototypeNames == {"toString"}

\* A name that is no property of the constructor map at all.
ForeignNames == {"webgl"}

\* Every string an untyped caller may put into backendOrder.
AnyName == BackendName \cup ObjectPrototypeNames \cup ForeignNames

(***************************************************************************)
(* JavaScript helpers, computed as the runtime computes them               *)
(***************************************************************************)

\* Array.prototype.indexOf: 0-based position of the first match, -1 if none.
IndexOf(arr, x) ==
    IF \E i \in 1..Len(arr) : arr[i] = x
    THEN (CHOOSE i \in 1..Len(arr) : arr[i] = x /\ \A j \in 1..(i - 1) : arr[j] # x) - 1
    ELSE -1

\* Array.prototype.concat: a NEW array; the receiver is left as it was.
Concat(arr, other) == arr \o other

\* Array.prototype.slice(): a shallow copy.
Slice(arr) == arr

\* Array.prototype.splice(start, deleteCount) on the receiver: a negative
\* start counts from the end of the array.
Splice(arr, start, deleteCount) ==
    LET n    == Len(arr)
        from == IF start < 0 THEN (IF n + start < 0 THEN 0 ELSE n + start)
                ELSE (IF start > n THEN n ELSE start)
        cnt  == IF deleteCount < 0 THEN 0
                ELSE IF deleteCount > n - from THEN n - from ELSE deleteCount
    IN  SubSeq(arr, 1, from) \o SubSeq(arr, from + cnt + 1, n)

\* Boolean(v) for v: boolean | undefined.
Boolean(v) == v = "true"

\* `name in descriptorRunners`: own keys and inherited property names.
InOperator(name) == name \in descriptorRunners \/ name \in ObjectPrototypeNames

Range(s) == {s[i] : i \in 1..Len(s)}

SeqsUpTo(S, n) == UNION {[1..m -> S] : m \in 0..n}

(***************************************************************************)
(* State                                                                   *)
(***************************************************************************)

VARIABLES
    env,            \* per backend: how its constructor / init() / load() behave here
    pc,             \* position of the one load() call
    initOption,     \* the caller's InitOption
    backendOrder,   \* load(): local backendOrder
    backendName,    \* load(): local backendName of the current iteration
    runner,         \* load(): local runner of the current iteration
    tried,          \* names handed to initBackend so far, in call order
    settled,        \* how the promise returned by load() settled
    localStorage,       \* the origin's persisted key-value entries
    appPc,              \* position of App.initialize in the current page session
    checkAvailability,  \* results of the three checkAvailability() probes
    availability,       \* App.initialize: local availability
    lastStatus,         \* App.lastStatus
    appRunner,          \* App.runner (its backendName)
    state,              \* App.state
    runButtonDisabled,  \* App.runButton.disabled
    inputView,          \* App.inputView is set
    outputView,         \* App.outputView is set
    running,            \* number of runner.run() promises not yet settled
    armedRun,           \* the run() of the predict() that wrote 'running' is
                        \* one of them
    alerts,             \* alert() dialogs shown since installation
    crashStarts         \* session starts that found webgpu available and
                        \* the persisted status 'running' or 'crashed'

loadVars == <<env, pc, initOption, backendOrder, backendName, runner, tried, settled>>

storeVars == <<localStorage, alerts, crashStarts>>

pageVars == <<appPc, checkAvailability, availability, lastStatus, appRunner, state,
              runButtonDisabled, inputView, outputView, running, armedRun>>

vars == <<env, pc, initOption, backendOrder, backendName, runner, tried, settled,
          localStorage, appPc, checkAvailability, availability, lastStatus,
          appRunner, state, runButtonDisabled, inputView, outputView, running,
          armedRun, alerts, crashStarts>>

\* The null a failed initBackend returns.
null == [backendName |-> "null", ignoreCache |-> FALSE, loaded |-> FALSE]

\* What a backend does in this environment.
\*   ctor_throws : new descriptorRunners[name](option) throws
\*   init_rejects: runner.init() rejects
\*   load_rejects: init() resolves, runner.load() rejects
\*   ok          : init() and load() both resolve
Behaviour == {"ctor_throws", "init_rejects", "load_rejects", "ok"}

Undefined == [tag |-> "undefined", str |-> "", arr |-> <<>>]
OneName(k) == [tag |-> "string", str |-> k, arr |-> <<>>]
NameArray(a) == [tag |-> "array", str |-> "", arr |-> a]

\* InitOption.backendOrder?: BackendName | BackendName[]
BackendOrderOption ==
    {Undefined} \cup {OneName(k) : k \in AnyName}
                \cup {NameArray(a) : a \in SeqsUpTo(AnyName, MaxOrderLen)}

\* InitOption.ignoreCache?: boolean
IgnoreCacheOption == {"undefined", "true", "false"}

InitOption == [backendOrder : BackendOrderOption, ignoreCache : IgnoreCacheOption]

NoOption == [backendOrder |-> Undefined, ignoreCache |-> "undefined"]

Pending == [state |-> "pending", backendName |-> "null", ignoreCache |-> FALSE,
            loaded |-> FALSE, message |-> ""]

(***************************************************************************)
(* webdnn.ts                                                               *)
(***************************************************************************)

\* initBackend without its try/catch: a constructor or init() failure leaves
\* initBackend as a rejection.
initBackend_NoCatch(name, e, fresh) ==
    IF ~InOperator(name)
    THEN [threw |-> TRUE, message |-> "Unknown backend", runner |-> null]
    ELSE IF name \notin descriptorRunners \/ e[name] \in {"ctor_throws", "init_rejects"}
    THEN [threw |-> TRUE, message |-> "init failed", runner |-> null]
    ELSE [threw |-> FALSE, message |-> "",
          runner |-> [backendName |-> name, ignoreCache |-> fresh, loaded |-> FALSE]]

\* initBackend with the registry test moved inside the try block: an unknown
\* name is logged and answered with null.
initBackend_UnknownCaught(name, e, fresh) ==
    IF ~InOperator(name) \/ name \notin descriptorRunners
       \/ e[name] \in {"ctor_throws", "init_rejects"}
    THEN [threw |-> FALSE, message |-> "", runner |-> null]
    ELSE [threw |-> FALSE, message |-> "",
          runner |-> [backendName |-> name, ignoreCache |-> fresh, loaded |-> FALSE]]

\* initBackend(backendName, option): the settled value of its promise.
\* fresh is the value the constructor leaves in runner.ignoreCache.
initBackend(name, e, fresh) ==
    IF ~InOperator(name)
    THEN [threw |-> TRUE, message |-> "Unknown backend", runner |-> null]
    ELSE IF name \notin descriptorRunners \/ e[name] \in {"ctor_throws", "init_rejects"}
    THEN [threw |-> FALSE, message |-> "", runner |-> null]
    ELSE [threw |-> FALSE, message |-> "",
          runner |-> [backendName |-> name, ignoreCache |-> fresh, loaded |-> FALSE]]

\* load(), lines 180-187: the order the while loop consumes.
NormalizeBackendOrder(bo) ==
    LET chosen    == IF bo.tag = "undefined" THEN <<"webgpu", "webassembly">>
                     ELSE IF bo.tag = "string" THEN <<bo.str>>
                     ELSE bo.arr
        copy      == Slice(chosen)
        discarded == IF IndexOf(copy, "fallback") = -1
                     THEN Concat(copy, <<"fallback">>) ELSE copy
    IN  copy

\* load() is called: lines 179-189.
LoadCall ==
    /\ pc = "idle"
    /\ \E opt \in InitOption :
         /\ initOption' = opt
         /\ backendOrder' = NormalizeBackendOrder(opt.backendOrder)
    /\ pc' = "while"
    /\ UNCHANGED <<env, backendName, runner, tried, settled>>
    /\ UNCHANGED <<storeVars, pageVars>>

\* Lines 191-193: shift the next name and await initBackend.
LoadInitBackend ==
    /\ pc = "while"
    /\ Len(backendOrder) > 0
    /\ \E fresh \in BOOLEAN :
         LET r == initBackend(Head(backendOrder), env, fresh) IN
           /\ backendName' = Head(backendOrder)
           /\ backendOrder' = Tail(backendOrder)
           /\ tried' = Append(tried, Head(backendOrder))
           /\ runner' = r.runner
           /\ IF r.threw
              THEN /\ pc' = "rejected"
                   /\ settled' = [Pending EXCEPT !.state = "rejected", !.message = r.message]
              ELSE /\ pc' = "initialized"
                   /\ UNCHANGED settled
    /\ UNCHANGED <<env, initOption>>
    /\ UNCHANGED <<storeVars, pageVars>>

\* Line 194: if (!runner) continue.
LoadContinue ==
    /\ pc = "initialized"
    /\ runner = null
    /\ pc' = "while"
    /\ UNCHANGED <<env, initOption, backendOrder, backendName, runner, tried, settled>>
    /\ UNCHANGED <<storeVars, pageVars>>

\* Lines 195-198 with the assignment of line 195 left out.
LoadRunnerLoad_FlagNotSet ==
    /\ pc = "initialized"
    /\ runner # null
    /\ pc' = "loading"
    /\ UNCHANGED <<env, initOption, backendOrder, backendName, runner, tried, settled>>
    /\ UNCHANGED <<storeVars, pageVars>>

\* Lines 195-198: set ignoreCache, then call runner.load().
LoadRunnerLoad ==
    /\ pc = "initialized"
    /\ runner # null
    /\ runner' = [runner EXCEPT !.ignoreCache = Boolean(initOption.ignoreCache)]
    /\ pc' = "loading"
    /\ UNCHANGED <<env, initOption, backendOrder, backendName, tried, settled>>
    /\ UNCHANGED <<storeVars, pageVars>>

\* Lines 198-203: runner.load() settles; a rejection is caught and logged;
\* return runner.
LoadReturn ==
    /\ pc = "loading"
    /\ runner' = [runner EXCEPT !.loaded = (env[backendName] = "ok")]
    /\ settled' = [state |-> "resolved", backendName |-> runner'.backendName,
                   ignoreCache |-> runner'.ignoreCache, loaded |-> runner'.loaded,
                   message |-> ""]
    /\ pc' = "resolved"
    /\ UNCHANGED <<env, initOption, backendOrder, backendName, tried>>
    /\ UNCHANGED <<storeVars, pageVars>>

\* Line 206: the loop ran out of names.
LoadThrowNoBackend ==
    /\ pc = "while"
    /\ Len(backendOrder) = 0
    /\ settled' = [Pending EXCEPT !.state = "rejected", !.message = "No backend is available"]
    /\ pc' = "rejected"
    /\ UNCHANGED <<env, initOption, backendOrder, backendName, runner, tried>>
    /\ UNCHANGED <<storeVars, pageVars>>

(***************************************************************************)
(* resnet50.ts                                                             *)
(***************************************************************************)

\* Most run() calls that are pending at the same time.
MaxInFlight == 2

\* The ghost counters alerts and crashStarts stop counting here.
MaxCount == 2

KEY_WEBGPU_LAST_STATUS == "webgpu_last_status"
KEY_FLAG_WEBGPU_DISABLED_ALERT == "flag_webgpu_disabled_alert"

StorageKeys == {KEY_WEBGPU_LAST_STATUS, KEY_FLAG_WEBGPU_DISABLED_ALERT}

\* localStorage.getItem() of a key that was never set.
NullItem == "<null>"

\* enum State, and the value of App.state before the first setState.
State == {"INITIALIZING", "NO_IMAGE", "STAND_BY", "RUNNING", "ERROR"}

\* A field that was never assigned.
undefined == "<undefined>"

CountUp(n) == IF n < MaxCount THEN n + 1 ELSE n

\* The fixed preference order of getBackendAvailability.
FixedOrder == <<"webgpu", "webassembly", "fallback">>

\* getBackendAvailability without the filter of line 84.
getBackendAvailability_NoFilter(check) ==
    [status |-> [b \in BackendName |-> check[b]], defaultOrder |-> FixedOrder]

\* getBackendAvailability(); check holds the checkAvailability() results.
getBackendAvailability(check) ==
    LET status == [b \in BackendName |-> check[b]]
        order  == SelectSeq(FixedOrder, LAMBDA backend : status[backend])
    IN  [status |-> status, defaultOrder |-> order]

NoAvailability == [status |-> [b \in BackendName |-> FALSE], defaultOrder |-> <<>>]

\* The orchestrator's normalisation as the specification states it:
\* fallback is appended when the order does not contain it.
AppendFallback(order) ==
    IF \E i \in 1..Len(order) : order[i] = "fallback" THEN order
    ELSE order \o <<"fallback">>

\* WebDNN.init(backendOrder) of the bundled library: the first backend of the
\* normalised order whose init() succeeds; initOk is the set of backends whose
\* init() succeeds in this session.
WebDNNInit(order, initOk) ==
    LET norm == AppendFallback(order)
        hits == {i \in 1..Len(norm) : norm[i] \in initOk}
    IN  IF hits = {} THEN undefined
        ELSE norm[CHOOSE i \in hits : \A j \in hits : i <= j]

\* localStorage.getItem(KEY_WEBGPU_LAST_STATUS) || 'none'
ReadLastStatus(ls) ==
    IF ls[KEY_WEBGPU_LAST_STATUS] = NullItem \/ ls[KEY_WEBGPU_LAST_STATUS] = ""
    THEN "none" ELSE ls[KEY_WEBGPU_LAST_STATUS]

\* Lines 128-152 with the splice of line 137 left out.
CheckLastStatus_NoSplice(av, ls, last) ==
    IF av.status["webgpu"]
    THEN LET read == ReadLastStatus(ls) IN
         IF read \in {"running", "crashed"}
         THEN LET flagUnset == ls[KEY_FLAG_WEBGPU_DISABLED_ALERT] \in {NullItem, ""} IN
              [availability |->
                   [status |-> [av.status EXCEPT !["webgpu"] = FALSE],
                    defaultOrder |-> av.defaultOrder],
               localStorage |->
                   [ls EXCEPT ![KEY_WEBGPU_LAST_STATUS] = "crashed",
                              ![KEY_FLAG_WEBGPU_DISABLED_ALERT] =
                                   IF flagUnset THEN "1" ELSE @],
               lastStatus |-> read,
               alert |-> flagUnset]
         ELSE [availability |-> av, localStorage |-> ls, lastStatus |-> read,
               alert |-> FALSE]
    ELSE [availability |-> av, localStorage |-> ls, lastStatus |-> last,
          alert |-> FALSE]

\* Lines 128-152 with the setItem of line 145 left out.
CheckLastStatus_FlagNotStored(av, ls, last) ==
    IF av.status["webgpu"]
    THEN LET read == ReadLastStatus(ls) IN
         IF read \in {"running", "crashed"}
         THEN LET flagUnset == ls[KEY_FLAG_WEBGPU_DISABLED_ALERT] \in {NullItem, ""} IN
              [availability |->
                   [status |-> [av.status EXCEPT !["webgpu"] = FALSE],
                    defaultOrder |-> Splice(av.defaultOrder,
                                            IndexOf(av.defaultOrder, "webgpu"), 1)],
               localStorage |-> [ls EXCEPT ![KEY_WEBGPU_LAST_STATUS] = "crashed"],
               lastStatus |-> read,
               alert |-> flagUnset]
         ELSE [availability |-> av, localStorage |-> ls, lastStatus |-> read,
               alert |-> FALSE]
    ELSE [availability |-> av, localStorage |-> ls, lastStatus |-> last,
          alert |-> FALSE]

\* Lines 128-152 with 'crashed' treated as a status to clear: the entry is
\* removed and webgpu stays eligible.
CheckLastStatus_CrashedCleared(av, ls, last) ==
    IF av.status["webgpu"]
    THEN LET read == ReadLastStatus(ls) IN
         IF read = "running"
         THEN LET flagUnset == ls[KEY_FLAG_WEBGPU_DISABLED_ALERT] \in {NullItem, ""} IN
              [availability |->
                   [status |-> [av.status EXCEPT !["webgpu"] = FALSE],
                    defaultOrder |-> Splice(av.defaultOrder,
                                            IndexOf(av.defaultOrder, "webgpu"), 1)],
               localStorage |->
                   [ls EXCEPT ![KEY_WEBGPU_LAST_STATUS] = "crashed",
                              ![KEY_FLAG_WEBGPU_DISABLED_ALERT] =
                                   IF flagUnset THEN "1" ELSE @],
               lastStatus |-> read,
               alert |-> flagUnset]
         ELSE IF read = "crashed"
         THEN [availability |-> av,
               localStorage |-> [ls EXCEPT ![KEY_WEBGPU_LAST_STATUS] = NullItem],
               lastStatus |-> "none", alert |-> FALSE]
         ELSE [availability |-> av, localStorage |-> ls, lastStatus |-> read,
               alert |-> FALSE]
    ELSE [availability |-> av, localStorage |-> ls, lastStatus |-> last,
          alert |-> FALSE]

\* App.initialize, lines 128-152: what the crash tracker leaves in
\* availability, localStorage and lastStatus, and whether alert() is called.
CheckLastStatus(av, ls, last) ==
    IF av.status["webgpu"]
    THEN LET read == ReadLastStatus(ls) IN
         IF read \in {"running", "crashed"}
         THEN LET flagUnset == ls[KEY_FLAG_WEBGPU_DISABLED_ALERT] \in {NullItem, ""} IN
              [availability |->
                   [status |-> [av.status EXCEPT !["webgpu"] = FALSE],
                    defaultOrder |-> Splice(av.defaultOrder,
                                            IndexOf(av.defaultOrder, "webgpu"), 1)],
               localStorage |->
                   [ls EXCEPT ![KEY_WEBGPU_LAST_STATUS] = "crashed",
                              ![KEY_FLAG_WEBGPU_DISABLED_ALERT] =
                                   IF flagUnset THEN "1" ELSE @],
               lastStatus |-> read,
               alert |-> flagUnset]
         ELSE [availability |-> av, localStorage |-> ls, lastStatus |-> read,
               alert |-> FALSE]
    ELSE [availability |-> av, localStorage |-> ls, lastStatus |-> last,
          alert |-> FALSE]

\* setState(s) once App.runButton is set: the new App.state and
\* runButton.disabled.  With App.runner unset, STAND_BY throws at line 199,
\* after the assignment of line 180 and before the button is touched.
setState(s, rnr, disabled) ==
    [state |-> s,
     disabled |-> IF s = "STAND_BY"
                  THEN (IF rnr = undefined THEN disabled ELSE FALSE)
                  ELSE TRUE]

\* The handlers of lines 72-83 are registered.
HandlersRegistered == appPc \notin {"onload", "probed"}

\* App.initialize() is called: lines 58-127.  htmlDisabled is the disabled
\* attribute #runButton carries in the page.
AppInitialize ==
    /\ appPc = "onload"
    /\ state' = "INITIALIZING"
    /\ \E htmlDisabled \in BOOLEAN : runButtonDisabled' = htmlDisabled
    /\ \E chromeAndroid \in BOOLEAN :
         IF chromeAndroid
         THEN /\ appPc' = "unsupported"
              /\ UNCHANGED <<checkAvailability, availability>>
         ELSE /\ appPc' = "probed"
              /\ \E check \in [BackendName -> BOOLEAN] :
                   /\ checkAvailability' = check
                   /\ availability' = getBackendAvailability(check)
    /\ UNCHANGED <<lastStatus, appRunner, inputView, outputView, running>>
    /\ UNCHANGED <<storeVars, loadVars>>
    /\ UNCHANGED armedRun

\* App.initialize, lines 128-159: the crash tracker, then WebDNN.init is
\* called with availability.defaultOrder.
AppCheckLastStatus ==
    /\ appPc = "probed"
    /\ LET r == CheckLastStatus(availability, localStorage, lastStatus) IN
         /\ availability' = r.availability
         /\ localStorage' = r.localStorage
         /\ lastStatus' = r.lastStatus
         /\ alerts' = IF r.alert THEN CountUp(alerts) ELSE alerts
         /\ crashStarts' = IF availability.status["webgpu"]
                              /\ ReadLastStatus(localStorage) \in {"running", "crashed"}
                           THEN CountUp(crashStarts) ELSE crashStarts
    /\ appPc' = "init"
    /\ UNCHANGED <<checkAvailability, appRunner, state, runButtonDisabled,
                   inputView, outputView, running>>
    /\ UNCHANGED loadVars
    /\ UNCHANGED armedRun

\* Lines 159-162: WebDNN.init settles; on success runner.load is called.
AppInitSettled ==
    /\ appPc = "init"
    /\ \E initOk \in SUBSET BackendName :
         LET r == WebDNNInit(availability.defaultOrder, initOk) IN
           IF r = undefined
           THEN appPc' = "failed" /\ UNCHANGED appRunner
           ELSE appPc' = "load" /\ appRunner' = r
    /\ UNCHANGED <<checkAvailability, availability, lastStatus, state,
                   runButtonDisabled, inputView, outputView, running>>
    /\ UNCHANGED <<storeVars, loadVars>>
    /\ UNCHANGED armedRun

\* Lines 162-165: runner.load settles.
AppLoadSettled ==
    /\ appPc = "load"
    /\ \E ok \in BOOLEAN : appPc' = IF ok THEN "inputViews" ELSE "failed"
    /\ UNCHANGED <<checkAvailability, availability, lastStatus, appRunner, state,
                   runButtonDisabled, inputView, outputView, running>>
    /\ UNCHANGED <<storeVars, loadVars>>
    /\ UNCHANGED armedRun

\* Lines 165-166: getInputViews settles.
AppInputViews ==
    /\ appPc = "inputViews"
    /\ inputView' = TRUE
    /\ appPc' = "outputViews"
    /\ UNCHANGED <<checkAvailability, availability, lastStatus, appRunner, state,
                   runButtonDisabled, outputView, running>>
    /\ UNCHANGED <<storeVars, loadVars>>
    /\ UNCHANGED armedRun

\* Lines 166-170: getOutputViews settles; setState(NO_IMAGE).
AppOutputViews ==
    /\ appPc = "outputViews"
    /\ outputView' = TRUE
    /\ LET s == setState("NO_IMAGE", appRunner, runButtonDisabled) IN
         state' = s.state /\ runButtonDisabled' = s.disabled
    /\ appPc' = "ready"
    /\ UNCHANGED <<checkAvailability, availability, lastStatus, appRunner,
                   inputView, running>>
    /\ UNCHANGED <<storeVars, loadVars>>
    /\ UNCHANGED armedRun

\* picker.onload, lines 72-74: an image (picked or random) was drawn.
PickerOnload ==
    /\ HandlersRegistered
    /\ LET s == setState("STAND_BY", appRunner, runButtonDisabled) IN
         state' = s.state /\ runButtonDisabled' = s.disabled
    /\ UNCHANGED <<appPc, checkAvailability, availability, lastStatus, appRunner,
                   inputView, outputView, running>>
    /\ UNCHANGED <<storeVars, loadVars>>
    /\ UNCHANGED armedRun

\* One of the pending run() promises settles; mine tells whether it is the
\* run() of the predict() that wrote 'running'.  Overlapping run() calls
\* settle in any order.
SettleOne(mine) ==
    /\ running > 0
    /\ mine => armedRun
    /\ ~mine => running > (IF armedRun THEN 1 ELSE 0)
    /\ running' = running - 1
    /\ armedRun' = (armedRun /\ ~mine)

\* predict() with line 248 testing lastStatus !== 'running'.
PredictStart_ArmUnlessRunning ==
    /\ HandlersRegistered
    /\ ~runButtonDisabled
    /\ LET s == setState("RUNNING", appRunner, runButtonDisabled) IN
         state' = s.state /\ runButtonDisabled' = s.disabled
    /\ IF ~inputView
       THEN UNCHANGED <<localStorage, lastStatus, running, armedRun>>
       ELSE /\ running < MaxInFlight
            /\ running' = running + 1
            /\ IF appRunner = "webgpu" /\ lastStatus # "running"
               THEN /\ localStorage' =
                         [localStorage EXCEPT ![KEY_WEBGPU_LAST_STATUS] = "running"]
                    /\ lastStatus' = "running"
                    /\ armedRun' = TRUE
               ELSE UNCHANGED <<localStorage, lastStatus, armedRun>>
    /\ UNCHANGED <<appPc, checkAvailability, availability, appRunner,
                   inputView, outputView, alerts, crashStarts>>
    /\ UNCHANGED loadVars

\* predict() with line 248 not testing backendName.
PredictStart_NoBackendCheck ==
    /\ HandlersRegistered
    /\ ~runButtonDisabled
    /\ LET s == setState("RUNNING", appRunner, runButtonDisabled) IN
         state' = s.state /\ runButtonDisabled' = s.disabled
    /\ IF ~inputView
       THEN UNCHANGED <<localStorage, lastStatus, running, armedRun>>
       ELSE /\ running < MaxInFlight
            /\ running' = running + 1
            /\ IF lastStatus = "none"
               THEN /\ localStorage' =
                         [localStorage EXCEPT ![KEY_WEBGPU_LAST_STATUS] = "running"]
                    /\ lastStatus' = "running"
                    /\ armedRun' = TRUE
               ELSE UNCHANGED <<localStorage, lastStatus, armedRun>>
    /\ UNCHANGED <<appPc, checkAvailability, availability, appRunner,
                   inputView, outputView, alerts, crashStarts>>
    /\ UNCHANGED loadVars

\* predict() with the setItem of line 249 left out.
PredictStart_NoArm ==
    /\ HandlersRegistered
    /\ ~runButtonDisabled
    /\ LET s == setState("RUNNING", appRunner, runButtonDisabled) IN
         state' = s.state /\ runButtonDisabled' = s.disabled
    /\ IF ~inputView
       THEN UNCHANGED <<localStorage, lastStatus, running, armedRun>>
       ELSE /\ running < MaxInFlight
            /\ running' = running + 1
            /\ IF appRunner = "webgpu" /\ lastStatus = "none"
               THEN /\ UNCHANGED localStorage
                    /\ lastStatus' = "running"
                    /\ armedRun' = TRUE
               ELSE UNCHANGED <<localStorage, lastStatus, armedRun>>
    /\ UNCHANGED <<appPc, checkAvailability, availability, appRunner,
                   inputView, outputView, alerts, crashStarts>>
    /\ UNCHANGED loadVars

\* Click on the enabled run button: predict(), lines 244-253.
\* setInputImageData throws while App.inputView is unset.
PredictStart ==
    /\ HandlersRegistered
    /\ ~runButtonDisabled
    /\ LET s == setState("RUNNING", appRunner, runButtonDisabled) IN
         state' = s.state /\ runButtonDisabled' = s.disabled
    /\ IF ~inputView
       THEN UNCHANGED <<localStorage, lastStatus, running, armedRun>>
       ELSE /\ running < MaxInFlight
            /\ running' = running + 1
            /\ IF appRunner = "webgpu" /\ lastStatus = "none"
               THEN /\ localStorage' =
                         [localStorage EXCEPT ![KEY_WEBGPU_LAST_STATUS] = "running"]
                    /\ lastStatus' = "running"
                    /\ armedRun' = TRUE
               ELSE UNCHANGED <<localStorage, lastStatus, armedRun>>
    /\ UNCHANGED <<appPc, checkAvailability, availability, appRunner,
                   inputView, outputView, alerts, crashStarts>>
    /\ UNCHANGED loadVars

\* Lines 253-278 with the setItem of line 256 left out.
RunResolved_NoCompleted ==
    /\ \E mine \in BOOLEAN : SettleOne(mine)
    /\ IF appRunner = "webgpu" /\ lastStatus = "running"
       THEN /\ UNCHANGED localStorage
            /\ lastStatus' = "completed"
       ELSE UNCHANGED <<localStorage, lastStatus>>
    /\ IF outputView
       THEN LET s == setState("STAND_BY", appRunner, runButtonDisabled) IN
              state' = s.state /\ runButtonDisabled' = s.disabled
       ELSE UNCHANGED <<state, runButtonDisabled>>
    /\ UNCHANGED <<appPc, checkAvailability, availability, appRunner,
                   inputView, outputView, alerts, crashStarts>>
    /\ UNCHANGED loadVars

\* Lines 253-278 with line 255 not testing backendName.
RunResolved_NoBackendCheck ==
    /\ \E mine \in BOOLEAN : SettleOne(mine)
    /\ IF lastStatus = "running"
       THEN /\ localStorage' =
                 [localStorage EXCEPT ![KEY_WEBGPU_LAST_STATUS] = "completed"]
            /\ lastStatus' = "completed"
       ELSE UNCHANGED <<localStorage, lastStatus>>
    /\ IF outputView
       THEN LET s == setState("STAND_BY", appRunner, runButtonDisabled) IN
              state' = s.state /\ runButtonDisabled' = s.disabled
       ELSE UNCHANGED <<state, runButtonDisabled>>
    /\ UNCHANGED <<appPc, checkAvailability, availability, appRunner,
                   inputView, outputView, alerts, crashStarts>>
    /\ UNCHANGED loadVars

\* run() resolves: predict(), lines 253-278.  Reading outputView.length
\* throws while App.outputView is unset.
RunResolved ==
    /\ \E mine \in BOOLEAN : SettleOne(mine)
    /\ IF appRunner = "webgpu" /\ lastStatus = "running"
       THEN /\ localStorage' =
                 [localStorage EXCEPT ![KEY_WEBGPU_LAST_STATUS] = "completed"]
            /\ lastStatus' = "completed"
       ELSE UNCHANGED <<localStorage, lastStatus>>
    /\ IF outputView
       THEN LET s == setState("STAND_BY", appRunner, runButtonDisabled) IN
              state' = s.state /\ runButtonDisabled' = s.disabled
       ELSE UNCHANGED <<state, runButtonDisabled>>
    /\ UNCHANGED <<appPc, checkAvailability, availability, appRunner,
                   inputView, outputView, alerts, crashStarts>>
    /\ UNCHANGED loadVars

\* A rejected run() with lines 255-258 in a finally block.
RunRejected_Finally ==
    /\ \E mine \in BOOLEAN : SettleOne(mine)
    /\ IF appRunner = "webgpu" /\ lastStatus = "running"
       THEN /\ localStorage' =
                 [localStorage EXCEPT ![KEY_WEBGPU_LAST_STATUS] = "completed"]
            /\ lastStatus' = "completed"
       ELSE UNCHANGED <<localStorage, lastStatus>>
    /\ UNCHANGED <<appPc, checkAvailability, availability, appRunner,
                   state, runButtonDisabled, inputView, outputView,
                   alerts, crashStarts>>
    /\ UNCHANGED loadVars

\* run() rejects: the rejection leaves predict() at line 253.
RunRejected ==
    /\ \E mine \in BOOLEAN : SettleOne(mine)
    /\ UNCHANGED <<appPc, checkAvailability, availability, lastStatus, appRunner,
                   state, runButtonDisabled, inputView, outputView>>
    /\ UNCHANGED <<storeVars, loadVars>>

\* The page is closed or the process dies; the next page load constructs App
\* anew (lines 42-56).  Only localStorage survives.
Terminate ==
    /\ appPc \notin {"onload", "probed"}
    /\ appPc' = "onload"
    /\ checkAvailability' = [b \in BackendName |-> FALSE]
    /\ availability' = NoAvailability
    /\ lastStatus' = ""
    /\ appRunner' = undefined
    /\ state' = undefined
    /\ runButtonDisabled' = TRUE
    /\ inputView' = FALSE
    /\ outputView' = FALSE
    /\ running' = 0
    /\ armedRun' = FALSE
    /\ UNCHANGED <<storeVars, loadVars>>

(***************************************************************************)
(* Specifications                                                          *)
(***************************************************************************)

\* No load() call yet.
LoadIdle ==
    /\ pc = "idle"
    /\ initOption = NoOption
    /\ backendOrder = <<>>
    /\ backendName = "null"
    /\ runner = null
    /\ tried = <<>>
    /\ settled = Pending

\* A freshly loaded page of a fresh installation.
PageLoaded ==
    /\ localStorage = [k \in StorageKeys |-> NullItem]
    /\ appPc = "onload"
    /\ checkAvailability = [b \in BackendName |-> FALSE]
    /\ availability = NoAvailability
    /\ lastStatus = ""
    /\ appRunner = undefined
    /\ state = undefined
    /\ runButtonDisabled = TRUE
    /\ inputView = FALSE
    /\ outputView = FALSE
    /\ running = 0
    /\ armedRun = FALSE
    /\ alerts = 0
    /\ crashStarts = 0

\* WebDNN.load in every environment.
Init ==
    /\ env \in [descriptorRunners -> Behaviour]
    /\ LoadIdle
    /\ PageLoaded

Next ==
    \/ LoadCall
    \/ LoadInitBackend
    \/ LoadContinue
    \/ LoadRunnerLoad
    \/ LoadReturn
    \/ LoadThrowNoBackend

Spec == Init /\ [][Next]_vars

\* The demo page over any number of page sessions.
AppInit ==
    /\ env = [b \in descriptorRunners |-> "ok"]
    /\ LoadIdle
    /\ PageLoaded

AppNext ==
    \/ AppInitialize
    \/ AppCheckLastStatus
    \/ AppInitSettled
    \/ AppLoadSettled
    \/ AppInputViews
    \/ AppOutputViews
    \/ PickerOnload
    \/ PredictStart
    \/ RunResolved
    \/ RunRejected
    \/ Terminate

AppSpec == AppInit /\ [][AppNext]_vars

TypeOK ==
    /\ pc \in {"idle", "while", "initialized", "loading", "resolved", "rejected"}
    /\ appPc \in {"onload", "probed", "unsupported", "init", "failed", "load",
                  "inputViews", "outputViews", "ready"}
    /\ state \in State \cup {undefined}
(***************************************************************************)
(* Properties of WebDNN.load (Spec)                                        *)
(***************************************************************************)

\* The order the caller asked for: the default when backendOrder is absent,
\* a one-element order for a single name.
CallerOrder ==
    IF initOption.backendOrder.tag = "undefined" THEN <<"webgpu", "webassembly">>
    ELSE IF initOption.backendOrder.tag = "string" THEN <<initOption.backendOrder.str>>
    ELSE initOption.backendOrder.arr

\* Constructing or initialising this name fails in this environment.
InitFails(k) ==
    \/ k \in ObjectPrototypeNames
    \/ k \in descriptorRunners /\ env[k] \in {"ctor_throws", "init_rejects"}

\* init() and load() both succeed for this name in this environment.
Usable(k) == k \in descriptorRunners /\ env[k] = "ok"

Settled == settled.state # "pending"

NoBackendError == settled.state = "rejected" /\ settled.message = "No backend is available"

UnknownBackendError == settled.state = "rejected" /\ settled.message = "Unknown backend"

\* C1: the order the loop iterates is the caller's order with 'fallback'
\* appended when absent; so a call that runs out of candidates has tried
\* 'fallback', and tried it last.
C1_FallbackAppendedLast ==
    /\ (pc = "while" /\ tried = <<>>) => backendOrder = AppendFallback(CallerOrder)
    /\ NoBackendError => (tried # <<>> /\ tried[Len(tried)] = "fallback")

\* C2: a runner whose load() rejected is never the value load() resolves with.
C2_FailedLoadNotReturned ==
    settled.state = "resolved" => settled.loaded

\* C3: the returned runner belongs to the first name of the order whose init()
\* and load() both succeed, and no name after it was handed to initBackend.
C3_FirstInitAndLoadReturned ==
    settled.state = "resolved" =>
        LET hits == {i \in 1..Len(CallerOrder) : Usable(CallerOrder[i])} IN
          /\ hits # {}
          /\ LET first == CHOOSE i \in hits : \A j \in hits : i <= j IN
               /\ settled.backendName = CallerOrder[first]
               /\ tried = SubSeq(CallerOrder, 1, first)

\* The scenario of C4: order ['webgpu','webassembly'], webgpu fails at
\* construction or init(), webassembly succeeds at init() and load().
C4_Scenario ==
    /\ CallerOrder = <<"webgpu", "webassembly">>
    /\ InitFails("webgpu")
    /\ Usable("webassembly")

\* C4: a failing constructor or init() of a registered backend is contained:
\* after it the call goes on with the next name, and it rejects only because
\* the order ran out; in the scenario the webassembly runner is returned.
C4_InitFailureContained ==
    /\ (tried # <<>> /\ tried[Len(tried)] \in descriptorRunners
          /\ InitFails(tried[Len(tried)])) =>
           \/ pc = "initialized" /\ runner = null
           \/ pc = "while"
           \/ NoBackendError /\ backendOrder = <<>>
    /\ (C4_Scenario /\ Settled) =>
           (settled.state = "resolved" /\ settled.backendName = "webassembly")

C4_Witness ==
    /\ C4_Scenario
    /\ tried = <<"webgpu", "webassembly">>
    /\ settled.state = "resolved"
    /\ settled.backendName = "webassembly"

\* C5: for an order of registered names, load() rejects with 'No backend is
\* available' exactly when no name of the caller's order plus 'fallback' is
\* usable; otherwise it returns the loaded runner of a usable candidate.
C5_NoBackendIffAllFail ==
    (Settled /\ Range(CallerOrder) \subseteq descriptorRunners) =>
        LET candidates == Range(AppendFallback(CallerOrder)) IN
          /\ NoBackendError <=> (\A k \in candidates : ~Usable(k))
          /\ (\E k \in candidates : Usable(k)) =>
                 /\ settled.state = "resolved"
                 /\ settled.loaded
                 /\ settled.backendName \in candidates

\* C6: while runner.load() is pending the runner's ignoreCache already is
\* Boolean(initOption.ignoreCache), and the returned runner carries it.
C6_IgnoreCacheSetBeforeLoad ==
    /\ pc = "loading" => (runner.ignoreCache <=> (initOption.ignoreCache = "true"))
    /\ settled.state = "resolved" =>
           (settled.ignoreCache <=> (initOption.ignoreCache = "true"))

C6_Witness ==
    /\ settled.state = "resolved"
    /\ initOption.ignoreCache = "true"
    /\ settled.ignoreCache

\* The order holds a name that is no property of the registry.
HasForeign == \E i \in 1..Len(CallerOrder) : CallerOrder[i] \in ForeignNames

\* First position of the order whose name is no property of the registry.
FirstForeign ==
    CHOOSE i \in 1..Len(CallerOrder) :
        /\ CallerOrder[i] \in ForeignNames
        /\ \A j \in 1..(i - 1) : CallerOrder[j] \notin ForeignNames

Rank(k) == IF k = "webgpu" THEN 1 ELSE IF k = "webassembly" THEN 2 ELSE 3

\* C8: defaultOrder holds exactly the backends whose checkAvailability() is
\* true, each once, in the order webgpu, webassembly, fallback.
C8_DefaultOrderFiltered ==
    appPc = "probed" =>
        LET o == availability.defaultOrder IN
          /\ availability.status = checkAvailability
          /\ \A k \in BackendName : (k \in Range(o)) <=> checkAvailability[k]
          /\ \A i, j \in 1..Len(o) : i < j => Rank(o[i]) < Rank(o[j])

C8_Witness ==
    /\ appPc = "probed"
    /\ ~checkAvailability["webgpu"]
    /\ availability.defaultOrder = <<"webassembly", "fallback">>

\* The order with webgpu taken out and everything else left in place.
WithoutWebGPU(o) == SelectSeq(o, LAMBDA k : k # "webgpu")

\* C9: a session start that finds webgpu available and the persisted status
\* 'running' stores 'crashed', sets status['webgpu'] to false and hands
\* WebDNN.init the default order without webgpu; the runner of that session
\* is never the webgpu runner.
C9_CrashedSessionExcludesWebGPU ==
    /\ [][(/\ appPc = "probed"
           /\ availability.status["webgpu"]
           /\ localStorage[KEY_WEBGPU_LAST_STATUS] = "running")
          => (/\ appPc' = "init"
              /\ localStorage'[KEY_WEBGPU_LAST_STATUS] = "crashed"
              /\ ~availability'.status["webgpu"]
              /\ availability'.defaultOrder = WithoutWebGPU(availability.defaultOrder)
              /\ \A k \in BackendName \ {"webgpu"} :
                     availability'.status[k] = availability.status[k])]_vars
    /\ [](( /\ checkAvailability["webgpu"]
            /\ ~availability.status["webgpu"]
            /\ lastStatus = "running") => appRunner # "webgpu")

C9_Witness ==
    /\ appPc = "ready"
    /\ checkAvailability["webgpu"]
    /\ ~availability.status["webgpu"]
    /\ lastStatus = "running"
    /\ localStorage[KEY_WEBGPU_LAST_STATUS] = "crashed"
    /\ availability.defaultOrder = <<"webassembly", "fallback">>
    /\ appRunner = "webassembly"

\* C10: the alert is shown in the first session that starts with webgpu
\* available and the persisted status 'running' or 'crashed', that session
\* stores the flag, and no later session shows it again.
C10_AlertShownOnce ==
    /\ alerts = (IF crashStarts = 0 THEN 0 ELSE 1)
    /\ (localStorage[KEY_FLAG_WEBGPU_DISABLED_ALERT] = "1") <=> (crashStarts > 0)

C10_Witness ==
    /\ crashStarts = 2
    /\ alerts = 1
    /\ localStorage[KEY_FLAG_WEBGPU_DISABLED_ALERT] = "1"

\* The persisted GPU status.
Persisted == localStorage[KEY_WEBGPU_LAST_STATUS]

\* A session whose start took webgpu out although the probe reported it.
WebGPUDisabled ==
    /\ appPc \notin {"onload", "probed"}
    /\ checkAvailability["webgpu"]
    /\ ~availability.status["webgpu"]

\* C11: the predict() that finds lastStatus 'none' on a webgpu runner writes
\* 'running' before it calls run(), and while that run() is pending the
\* persisted status is 'running', so that a termination at that moment is
\* found by the next session start.
C11_ArmedRunKeepsRunning ==
    armedRun => Persisted = "running"

\* C12: a run() that resolves on the webgpu runner while the persisted status
\* is 'running' stores 'completed'; a session start that finds 'completed'
\* keeps webgpu in the order and leaves both entries and the alert as they are.
C12_CompletedRoundTrip ==
    /\ [][(RunResolved /\ appRunner = "webgpu" /\ Persisted = "running")
            => (localStorage'[KEY_WEBGPU_LAST_STATUS] = "completed")]_vars
    /\ [][(appPc = "probed" /\ Persisted = "completed")
            => (/\ appPc' = "init"
                /\ availability' = availability
                /\ (checkAvailability["webgpu"] =>
                        "webgpu" \in Range(availability'.defaultOrder))
                /\ localStorage' = localStorage
                /\ alerts' = alerts)]_vars

C12_Witness ==
    /\ appPc = "init"
    /\ lastStatus = "completed"
    /\ Persisted = "completed"
    /\ availability.status["webgpu"]
    /\ availability.defaultOrder # <<>>
    /\ availability.defaultOrder[1] = "webgpu"

\* C13: the persisted status is absent, 'running', 'crashed' or 'completed',
\* and every change of it is absent -> 'running', 'running' -> 'completed'
\* or 'running' -> 'crashed'.
C13_StatusTransitions ==
    /\ [](Persisted \in {NullItem, "running", "crashed", "completed"})
    /\ [][(localStorage'[KEY_WEBGPU_LAST_STATUS] # Persisted)
            => (<<Persisted, localStorage'[KEY_WEBGPU_LAST_STATUS]>> \in
                  {<<NullItem, "running">>, <<"running", "completed">>,
                   <<"running", "crashed">>})]_vars

C13_Witness ==
    /\ appPc = "ready"
    /\ appRunner = "webgpu"
    /\ lastStatus = "completed"
    /\ Persisted = "completed"
    /\ ~armedRun
    /\ running = 1

\* C14: in a session whose start stored 'crashed' the persisted status is
\* 'crashed' until the session ends, whatever predict() and run() do.
C14_CrashedForTheSession ==
    WebGPUDisabled => Persisted = "crashed"

C14_Witness ==
    /\ WebGPUDisabled
    /\ appPc = "ready"
    /\ lastStatus = "running"
    /\ Persisted = "crashed"
    /\ running = 1

C16_WritesOnlyAroundWebGPU ==
    [][(localStorage' # localStorage)
         => (\/ /\ appPc = "probed"
                /\ availability.status["webgpu"]
                /\ Persisted \in {"running", "crashed"}
             \/ /\ appRunner = "webgpu"
                /\ running' # running)]_vars

C16_Witness ==
    /\ appRunner = "webassembly"
    /\ lastStatus = "none"
    /\ running = 1
    /\ Persisted = NullItem

\* C17 as stated: whenever run() is pending on a webgpu runner the persisted
\* status is 'running'.
C17_InFlightMeansRunning ==
    (running > 0 /\ appRunner = "webgpu") => Persisted = "running"

\* C17 amended: whenever run() is pending on a webgpu runner the persisted
\* status equals App.lastStatus and is 'running' or 'completed'; 'running' is
\* stored only by a predict() that finds lastStatus 'none'.
C17_InFlightRunningOrCompleted ==
    /\ []((running > 0 /\ appRunner = "webgpu")
            => (Persisted \in {"running", "completed"} /\ Persisted = lastStatus))
    /\ [][(localStorage'[KEY_WEBGPU_LAST_STATUS] = "running" /\ Persisted # "running")
            => (lastStatus = "none" /\ running' = running + 1)]_vars

C17_Witness ==
    /\ appRunner = "webgpu"
    /\ running = 1
    /\ ~armedRun
    /\ crashStarts = 0
    /\ lastStatus = "completed"
    /\ Persisted = "completed"

\* C18: runner.run() is never called while an earlier run() is pending.
C18_NoOverlappingRun ==
    running <= 1

\* C19: a persisted 'crashed' stays 'crashed' through every step, and every
\* session start that finds it with webgpu available takes webgpu out.
C19_CrashedIsPermanent ==
    /\ [][(Persisted = "crashed")
            => (localStorage'[KEY_WEBGPU_LAST_STATUS] = "crashed")]_vars
    /\ [][(appPc = "probed" /\ availability.status["webgpu"] /\ Persisted = "crashed")
            => (/\ ~availability'.status["webgpu"]
                /\ availability'.defaultOrder = WithoutWebGPU(availability.defaultOrder))]_vars

C19_Witness ==
    /\ crashStarts = 2
    /\ WebGPUDisabled
    /\ appPc = "ready"
    /\ lastStatus = "crashed"
    /\ Persisted = "crashed"
    /\ running = 1

\* C20: a name that is not registered raises 'Unknown backend' as soon as the
\* loop hands it to initBackend: load() is rejected with that error and no
\* name after it is tried.
C20_UnregisteredRaisesAtOnce ==
    \A i \in 1..Len(tried) :
        tried[i] \notin descriptorRunners
            => (i = Len(tried) /\ pc = "rejected" /\ UnknownBackendError)
====
